---- MODULE Spec2Model ----
(***************************************************************************)
(* Model of towr's ContactSchedule (contact_schedule.cc): the optimization *)
(* variable set holding the phase durations of one end-effector.           *)
(*                                                                         *)
(* Durations are doubles in the source.  They are modelled as integer      *)
(* multiples of one time tick, so all arithmetic is exact; IEEE rounding   *)
(* is not modelled.  Phases and Jacobian columns are 0-based as in the     *)
(* source; the sequence durations_ is 1-based, so phase p is               *)
(* durations_[p+1].                                                        *)
(***************************************************************************)
EXTENDS Integers, Sequences, FiniteSets, TLC

\* ------------------------------------------------------------------ bounds
MaxPhases == 3
MaxObservers == 2

\* durations and duration bounds, in ticks
Ticks == {1, 2}
\* the observers that may register (ContactScheduleObserver instances)
Observers == {"o1", "o2"}
\* n_dim = xd.rows(), and the entries of dx_dT and xd
Dims == {1, 2}
Vals == {0, 1}

None == [op |-> "none", notified |-> <<>>]

VARIABLES
  durations_,              \* VecDurations durations_
  t_total_,                \* double t_total_
  phase_duration_bounds_,  \* ifopt::Bounds phase_duration_bounds_
  observers_,              \* std::vector<ContactScheduleObserver*> observers_
  rows,                    \* VariableSet's number of variables, GetRows()
  ndebug,                  \* the build: TRUE iff NDEBUG is defined (assert compiled out)
  aborted,                 \* the process was terminated by a failed assert
  call,                    \* the last operation: arguments, result, notifications sent
  jac_hist                 \* history of GetJacobianOfPos calls (SpecJac only)

vars == <<durations_, t_total_, phase_duration_bounds_, observers_, rows,
          ndebug, aborted, call, jac_hist>>

\* ----------------------------------------------------------------- helpers
RECURSIVE SumSeq(_)
SumSeq(s) == IF s = <<>> THEN 0 ELSE Head(s) + SumSeq(Tail(s))

Abs(v) == IF v < 0 THEN -v ELSE v

SeqsUpTo(S, lo, hi) == UNION {[1..n -> S] : n \in lo..hi}

Back(s) == s[Len(s)]

\* ------------------------------------------------------------- constructor
\* timings.size()-1, passed as VariableSet's n_var
ContactScheduleRows(timings) == Len(timings) - 1

ContactScheduleTotalSkipsLast(timings) ==
  IF timings = <<>> THEN 0 ELSE SumSeq(SubSeq(timings, 1, Len(timings) - 1))

\* std::accumulate(timings.begin(), timings.end(), 0.0)
ContactScheduleTotal(timings) == SumSeq(timings)

ContactSchedule(timings, min_duration, max_duration, build) ==
  /\ durations_ = timings
  /\ t_total_ = ContactScheduleTotal(timings)
  /\ phase_duration_bounds_ = [lower |-> min_duration, upper |-> max_duration]
  /\ rows = ContactScheduleRows(timings)
  /\ observers_ = <<>>
  /\ ndebug = build
  /\ aborted = FALSE
  /\ call = None
  /\ jac_hist = None

\* ------------------------------------------------------------ AddObserver
AddObserver(o) ==
  /\ ~aborted
  /\ Len(observers_) < MaxObservers
  /\ observers_' = Append(observers_, o)
  /\ call' = [op |-> "AddObserver", o |-> o, notified |-> <<>>]
  /\ UNCHANGED <<durations_, t_total_, phase_duration_bounds_, rows, ndebug,
                 aborted, jac_hist>>

\* -------------------------------------------------------- UpdateObservers
UpdateObserversReversed(durs) ==
  [i \in 1..Len(observers_) |->
     [observer |-> observers_[Len(observers_) + 1 - i], durations |-> durs]]

\* for (auto& spline : observers_) spline->UpdatePhaseDurations();
\* the notifications sent, in order: who was notified, and the durations the
\* schedule held at that moment
UpdateObservers(durs) ==
  [i \in 1..Len(observers_) |-> [observer |-> observers_[i], durations |-> durs]]

\* ---------------------------------------------------------------- GetValues
GetValuesAllPhases == durations_

\* x(i) = durations_.at(i) for i < GetRows()
GetValues == [i \in 1..rows |-> durations_[i]]

GetValuesCall ==
  /\ ~aborted
  /\ call' = [op |-> "GetValues", ret |-> GetValues, notified |-> <<>>]
  /\ UNCHANGED <<durations_, t_total_, phase_duration_bounds_, observers_, rows,
                 ndebug, aborted, jac_hist>>

\* ------------------------------------------------------------- SetVariables
\* durations_.at(i) = x(i) for i < GetRows()
SetIndependent(x) ==
  [i \in 1..Len(durations_) |-> IF i <= rows THEN x[i] ELSE durations_[i]]

LastDurationStale(x) == Back(durations_)

\* t_total_ - x.sum()
LastDuration(x) == t_total_ - SumSeq(x)

\* the durations after the loop and durations_.back() = t_total_ - x.sum()
NewDurations(x) ==
  [SetIndependent(x) EXCEPT ![Len(durations_)] = LastDuration(x)]

\* assert(durations_.back()>0): terminates the process unless NDEBUG is defined
AssertFails(durs) == ~ndebug /\ ~(Back(durs) > 0)

SetVariablesCore(x) ==
  /\ ~aborted
  /\ Len(x) = rows
  /\ durations_' = NewDurations(x)
  /\ aborted' = AssertFails(NewDurations(x))
  /\ call' = [op |-> "SetVariables", x |-> x,
              x_was_current |-> (x = GetValues),
              notified |-> IF AssertFails(NewDurations(x)) THEN <<>>
                           ELSE UpdateObservers(NewDurations(x))]
  /\ UNCHANGED <<t_total_, phase_duration_bounds_, observers_, rows, ndebug>>

SetVariables(x) == SetVariablesCore(x) /\ UNCHANGED jac_hist

\* ---------------------------------------------------------------- GetBounds
GetBoundsRetAllPhases == [i \in 1..Len(durations_) |-> phase_duration_bounds_]

\* bounds.push_back(phase_duration_bounds_) for i < GetRows()
GetBoundsRet == [i \in 1..rows |-> phase_duration_bounds_]

GetBounds ==
  /\ ~aborted
  /\ call' = [op |-> "GetBounds", ret |-> GetBoundsRet, notified |-> <<>>]
  /\ UNCHANGED <<durations_, t_total_, phase_duration_bounds_, observers_, rows,
                 ndebug, aborted, jac_hist>>

\* --------------------------------------------------------- GetJacobianOfPos
Neg(v) == [i \in 1..Len(v) |-> -v[i]]
Minus(v, w) == [i \in 1..Len(v) |-> v[i] - w[i]]
Zero(n) == [i \in 1..n |-> 0]

\* bool in_last_phase = (current_phase == durations_.size()-1)
InLastPhase(current_phase) == current_phase = Len(durations_) - 1

JacDenseNoLastPhaseTerm(current_phase, dx_dT, xd) ==
  [c \in 0..(rows - 1) |->
     IF c < current_phase THEN Neg(xd)
     ELSE IF c = current_phase THEN dx_dT ELSE Zero(Len(xd))]

JacDenseOwnColumnOverwritten(current_phase, dx_dT, xd) ==
  [c \in 0..(rows - 1) |->
     IF c <= current_phase
     THEN IF InLastPhase(current_phase) THEN Minus(Neg(xd), dx_dT) ELSE Neg(xd)
     ELSE Zero(Len(xd))]

\* the dense matrix jac, as a function from column (0-based) to column vector
JacDense(current_phase, dx_dT, xd) ==
  LET n_dim == Len(xd)
      in_last_phase == InLastPhase(current_phase)
      jac0 == [c \in 0..(rows - 1) |-> Zero(n_dim)]
      jac1 == IF ~in_last_phase
              THEN [jac0 EXCEPT ![current_phase] = dx_dT]
              ELSE jac0
  IN [c \in 0..(rows - 1) |->
        IF c < current_phase
        THEN IF in_last_phase THEN Minus(Neg(xd), dx_dT) ELSE Neg(xd)
        ELSE jac1[c]]

\* jac.sparseView(1.0, -1.0)
SparseReference == 1
SparseEpsilon == -1

SparseViewPruneZeros(dense, n_dim, reference, epsilon) ==
  LET kept == {e \in (1..n_dim) \X DOMAIN dense : dense[e[2]][e[1]] # 0}
  IN [n_rows |-> n_dim, n_cols |-> Cardinality(DOMAIN dense),
      entries |-> [e \in kept |-> dense[e[2]][e[1]]]]

\* Eigen's sparseView(reference, epsilon) keeps the entry v unless
\* isMuchSmallerThan(v, reference, epsilon), i.e. |v| <= |reference|*epsilon.
\* The sparse matrix: its dimensions, and a function from its structurally
\* present entries <<row, column>> (columns 0-based) to their values.
SparseView(dense, n_dim, reference, epsilon) ==
  LET kept == {e \in (1..n_dim) \X DOMAIN dense :
                 ~(Abs(dense[e[2]][e[1]]) <= Abs(reference) * epsilon)}
  IN [n_rows |-> n_dim, n_cols |-> Cardinality(DOMAIN dense),
      entries |-> [e \in kept |-> dense[e[2]][e[1]]]]

GetJacobianOfPosRet(current_phase, dx_dT, xd) ==
  SparseView(JacDense(current_phase, dx_dT, xd), Len(xd),
             SparseReference, SparseEpsilon)

GetJacobianOfPosCore(current_phase, dx_dT, xd) ==
  /\ ~aborted
  /\ current_phase \in 0..(Len(durations_) - 1)
  /\ Len(dx_dT) = Len(xd)
  /\ call' = [op |-> "GetJacobianOfPos", current_phase |-> current_phase,
              dx_dT |-> dx_dT, xd |-> xd,
              ret |-> GetJacobianOfPosRet(current_phase, dx_dT, xd),
              notified |-> <<>>]
  /\ UNCHANGED <<durations_, t_total_, phase_duration_bounds_, observers_, rows,
                 ndebug, aborted>>

GetJacobianOfPos(current_phase, dx_dT, xd) ==
  GetJacobianOfPosCore(current_phase, dx_dT, xd) /\ UNCHANGED jac_hist

\* ------------------------------------------------ history of Jacobian calls
\* jac_hist summarises the latest GetJacobianOfPos call: its current_phase and
\* n_dim, the set of structurally present entries it returned, whether the
\* durations have changed since, and, when the call before it had the same
\* current_phase and n_dim and the durations changed in between (compared),
\* the pattern that earlier call returned.
SetVariablesTracked(x) ==
  /\ SetVariablesCore(x)
  /\ jac_hist' = IF jac_hist # None /\ NewDurations(x) # durations_
                  THEN [jac_hist EXCEPT !.durations_changed = TRUE]
                  ELSE jac_hist

GetJacobianOfPosTracked(current_phase, dx_dT, xd) ==
  /\ GetJacobianOfPosCore(current_phase, dx_dT, xd)
  /\ LET pattern == DOMAIN GetJacobianOfPosRet(current_phase, dx_dT, xd).entries
         compared == /\ jac_hist # None
                     /\ jac_hist.current_phase = current_phase
                     /\ jac_hist.n_dim = Len(xd)
                     /\ jac_hist.durations_changed
     IN jac_hist' = [op |-> "GetJacobianOfPos",
                     current_phase |-> current_phase, n_dim |-> Len(xd),
                     pattern |-> pattern, durations_changed |-> FALSE,
                     compared |-> compared,
                     earlier |-> IF compared THEN jac_hist.pattern ELSE pattern]

\* ------------------------------------------------------------ specifications
\* valid configurations: at least one phase, positive durations and bounds
ValidTimings == SeqsUpTo(Ticks, 1, MaxPhases)
ValidBounds == {b \in Ticks \X Ticks : b[1] <= b[2]}
SetVariablesInputs == SeqsUpTo(Ticks, 0, MaxPhases - 1)

Init ==
  \E timings \in ValidTimings, b \in ValidBounds, build \in BOOLEAN :
    ContactSchedule(timings, b[1], b[2], build)

\* the schedule with all its operations; the Jacobian is queried with
\* one-dimensional dx_dT and xd
Next ==
  \/ \E o \in Observers : AddObserver(o)
  \/ \E x \in SetVariablesInputs : SetVariables(x)
  \/ GetValuesCall
  \/ GetBounds
  \/ \E current_phase \in 0..(MaxPhases - 1) :
       \E dx_dT \in [1..1 -> Vals], xd \in [1..1 -> Vals] :
         GetJacobianOfPos(current_phase, dx_dT, xd)

Spec == Init /\ [][Next]_vars

\* the Jacobian under changing durations, with the history of its calls; the
\* duration bounds, which the Jacobian does not read, are one fixed pair
InitJac ==
  \E timings \in ValidTimings, build \in BOOLEAN :
    ContactSchedule(timings, 1, 2, build)

NextJac ==
  \/ \E x \in SetVariablesInputs : SetVariablesTracked(x)
  \/ \E current_phase \in 0..(MaxPhases - 1), n \in Dims :
       \E dx_dT \in [1..n -> Vals], xd \in [1..n -> Vals] :
         GetJacobianOfPosTracked(current_phase, dx_dT, xd)

SpecJac == InitJac /\ [][NextJac]_vars

\* construction from any configuration the constructor accepts
AnyTimings == SeqsUpTo(Ticks, 0, MaxPhases)
AnyBound == {-1, 0, 1, 2}

InitCtor ==
  \E timings \in AnyTimings, mn \in AnyBound, mx \in AnyBound, build \in BOOLEAN :
    ContactSchedule(timings, mn, mx, build)

NextCtor ==
  \/ \E o \in Observers : AddObserver(o)
  \/ GetBounds

SpecCtor == InitCtor /\ [][NextCtor]_vars

\* ---------------------------------------------------------------- properties
\* the value of entry <<r, c>> of a sparse matrix: absent entries are zero
Entry(m, r, c) == IF <<r, c>> \in DOMAIN m.entries THEN m.entries[<<r, c>>] ELSE 0

\* C1: total_time is the sum of the initial timings and never changes, and
\* after every SetVariables call the independent durations GetValues() and
\* the derived last duration add up to total_time.
C1_TotalTimeConserved ==
  /\ t_total_ = SumSeq(durations_)
  /\ [][t_total_' = t_total_]_vars
  /\ [](call.op = "SetVariables" =>
          SumSeq(GetValues) + Back(durations_) = t_total_)

C1_Witness ==
  /\ call.op = "SetVariables"
  /\ ~call.x_was_current
  /\ rows = 2
  /\ Back(durations_) > 0
  /\ ~aborted

\* C2: a SetVariables call whose recomputed last duration is not strictly
\* positive is flagged as fatal: the evaluation is aborted and no observer
\* is notified of the meaningless schedule.
C2_NonPositiveLastAborts ==
  (call.op = "SetVariables" /\ Back(durations_) <= 0) =>
    (aborted /\ call.notified = <<>>)

\* C3: a SetVariables call that returns notifies every observer registered
\* so far once per registration, in registration order, each seeing all
\* durations (the derived last one included) already updated; no other
\* operation notifies anyone.
C3_ObserversNotifiedInOrder ==
  /\ (call.op = "SetVariables" /\ ~aborted) =>
       /\ Len(call.notified) = Len(observers_)
       /\ \A i \in 1..Len(observers_) :
            /\ call.notified[i].observer = observers_[i]
            /\ call.notified[i].durations = durations_
  /\ call.op # "SetVariables" => call.notified = <<>>

C3_Witness ==
  /\ call.op = "SetVariables"
  /\ ~aborted
  /\ ~call.x_was_current
  /\ Len(observers_) = 2
  /\ observers_[1] # observers_[2]
  /\ Len(call.notified) = 2

\* C4: the Jacobian has GetRows() = number of phases - 1 columns; the column
\* of current_phase equals dx_dT when current_phase is not the last phase,
\* and the last phase has no column.
C4_OwnColumn ==
  call.op = "GetJacobianOfPos" =>
    LET jac == call.ret
        in_last == call.current_phase = Len(durations_) - 1
    IN /\ jac.n_cols = Len(durations_) - 1
       /\ jac.n_cols = rows
       /\ \A e \in DOMAIN jac.entries : e[2] \in 0..(jac.n_cols - 1)
       /\ ~in_last =>
            /\ call.current_phase \in 0..(jac.n_cols - 1)
            /\ \A r \in 1..jac.n_rows :
                 Entry(jac, r, call.current_phase) = call.dx_dT[r]
       /\ in_last => call.current_phase \notin 0..(jac.n_cols - 1)

C4_Witness ==
  /\ call.op = "GetJacobianOfPos"
  /\ call.current_phase = 1
  /\ Len(durations_) = 3
  /\ call.dx_dT = <<1, 0>>
  /\ call.xd = <<1, 1>>

\* C5: every column of a phase before current_phase equals -xd when
\* current_phase is not the last phase and -xd - dx_dT when it is; every
\* column of a phase after current_phase is zero.
C5_OtherColumns ==
  call.op = "GetJacobianOfPos" =>
    LET jac == call.ret
        in_last == call.current_phase = Len(durations_) - 1
    IN \A c \in 0..(jac.n_cols - 1), r \in 1..jac.n_rows :
         /\ (c < call.current_phase /\ ~in_last) =>
              Entry(jac, r, c) = -call.xd[r]
         /\ (c < call.current_phase /\ in_last) =>
              Entry(jac, r, c) = -call.xd[r] - call.dx_dT[r]
         /\ c > call.current_phase => Entry(jac, r, c) = 0

C5_Witness ==
  /\ call.op = "GetJacobianOfPos"
  /\ Len(durations_) = 3
  /\ call.current_phase = 2
  /\ call.dx_dT = <<1, 0>>
  /\ call.xd = <<0, 1>>

\* C6: two GetJacobianOfPos calls with the same current_phase and the same
\* shapes, made under different durations, return the same set of
\* structurally present entries; entries that are exactly zero are present.
C6_PatternStable ==
  /\ (jac_hist # None /\ jac_hist.compared) => jac_hist.earlier = jac_hist.pattern
  /\ call.op = "GetJacobianOfPos" =>
       DOMAIN call.ret.entries = (1..call.ret.n_rows) \X (0..(call.ret.n_cols - 1))

C6_Witness ==
  /\ call.op = "GetJacobianOfPos"
  /\ jac_hist # None
  /\ jac_hist.compared
  /\ jac_hist.n_dim = 2
  /\ \E e \in DOMAIN call.ret.entries : call.ret.entries[e] = 0
  /\ \E e \in DOMAIN call.ret.entries : call.ret.entries[e] # 0

\* C7: SetVariables(GetValues()) leaves every phase duration unchanged.
C7_RoundTrip ==
  [][(\E x \in SetVariablesInputs : x = GetValues /\ SetVariables(x))
       => durations_' = durations_]_vars

C7_Witness ==
  /\ call.op = "SetVariables"
  /\ call.x_was_current
  /\ rows = 2
  /\ ~aborted

\* C8: GetValues() returns GetRows() = number of phases - 1 entries, the
\* durations of all phases but the last in phase order; right after a
\* SetVariables(x) that returns, GetValues() is x.
C8_GetValues ==
  /\ call.op = "GetValues" =>
       /\ Len(call.ret) = rows
       /\ Len(call.ret) = Len(durations_) - 1
       /\ \A i \in 1..(Len(durations_) - 1) : call.ret[i] = durations_[i]
  /\ (call.op = "SetVariables" /\ ~aborted) => GetValues = call.x

C8_Witness ==
  /\ call.op = "GetValues"
  /\ Len(call.ret) = 2
  /\ call.ret[1] # call.ret[2]

\* C9: no schedule constructed from a malformed configuration exists: every
\* schedule has at least one phase and positive duration bounds.
C9_MalformedRejected ==
  /\ Len(durations_) >= 1
  /\ phase_duration_bounds_.lower > 0
  /\ phase_duration_bounds_.upper > 0

\* C10: GetValues, GetBounds, GetJacobianOfPos and AddObserver leave the
\* durations and total_time unchanged; AddObserver changes only the observer
\* list; no operation changes the bounds, and GetBounds returns that same
\* pair once per independent duration.
C10_Frame ==
  [][/\ call'.op \in {"GetValues", "GetBounds", "GetJacobianOfPos", "AddObserver"}
          => (durations_' = durations_ /\ t_total_' = t_total_)
     /\ call'.op = "AddObserver"
          => UNCHANGED <<durations_, t_total_, phase_duration_bounds_, rows, aborted>>
     /\ phase_duration_bounds_' = phase_duration_bounds_
     /\ call'.op = "GetBounds"
          => /\ Len(call'.ret) = Len(durations_) - 1
             /\ \A i \in 1..Len(call'.ret) : call'.ret[i] = phase_duration_bounds_
    ]_vars

C10_Witness ==
  /\ call.op = "GetBounds"
  /\ Len(call.ret) = 2
  /\ Len(observers_) = 2

====
